---- MODULE Spec2Model ----
(***************************************************************************)
(* TripGuard / TripSense server: the context builder and the heuristic     *)
(* ("mock") analysis engine of server/routes.ts, and the                   *)
(* POST /api/agent/analyze-plan handler with its Redis cache layer.        *)
(*                                                                         *)
(* Two revisions of server/routes.ts are in the repository:                *)
(*   "part_007"  src/unnamed/part_007  (haversine distance, flight-aware)  *)
(*   "routes"    src/server/routes.ts  (earlier revision)                  *)
(* plan.variant selects the revision a run executes.                       *)
(*                                                                         *)
(* Time is counted in minutes from local midnight of plan.departureDate;   *)
(* the server's zone has no clock change on that day.  A Date that the     *)
(* code builds from a string JavaScript cannot parse is the value NaN: it  *)
(* is carried as [nan |-> TRUE, v |-> 0].                                  *)
(***************************************************************************)
EXTENDS Integers, Sequences, FiniteSets, TLC

VARIABLES
    plan,        \* the validated PlanRequest being analysed
    now,         \* the server's wall clock (new Date()) at generateContext
    pc,          \* position of the run inside generateContext/generateMockAnalysis
    context,     \* the ContextSummary generateContext returned
    st,          \* locals of generateMockAnalysis: risks, suggestions, status ...
    prev,        \* the AnalysisResult of the previous invocation on this plan
    hd,          \* locals of the analyze-plan handler and its position
    response,    \* the HTTP response the handler sent for the current request
    redis,       \* redis.ts module state: redisAvailable, redisClient
    cache,       \* Redis keys analysis:<hash>
    session,     \* Redis key session:<sessionId>
    agent,       \* Redis key agent:<sessionId>
    apiKey,      \* whether process.env.TINYFISH_API_KEY is set
    served,      \* requests received so far
    peer,        \* a second invocation of the handler, suspended at an await
    form,        \* the flight fields of the plan form (suggestions-card.tsx)
    dialog       \* FlightDialog's state, its open / initialData props and
                 \* the data it last handed to onConfirm

engineVars == <<plan, now, pc, context, st, prev>>

handlerVars == <<hd, response, redis, cache, session, agent, apiKey, served>>

clientVars == <<form, dialog>>

vars == <<engineVars, handlerVars, peer, clientVars>>

----------------------------------------------------------------------------
(* Bounds of the model *)

MaxNameLen == 21     \* destinationName lengths drawn for the distance checks
MaxNow == 1          \* how often the clock advances between invocations
MaxRequests == 2     \* requests one session sends
MaxTicks == 2        \* clock ticks during the handler runs

----------------------------------------------------------------------------
(* Arithmetic helpers *)

\* Math.round(n / d) for n >= 0, d > 0: round half up.
Round(n, d) == (2 * n + d) \div (2 * d)

Abs(x) == IF x < 0 THEN 0 - x ELSE x

Max(a, b) == IF a >= b THEN a ELSE b

Sev(s) == CASE s = "good" -> 0 [] s = "caution" -> 1 [] s = "danger" -> 2

Num(x) == [nan |-> FALSE, v |-> x]
NaN == [nan |-> TRUE, v |-> 0]

\* a <= b in place of a < b.
Le(a, b) == ~a.nan /\ ~b.nan /\ a.v <= b.v

\* JavaScript's a < b and a > b on numbers: false as soon as one side is NaN.
Lt(a, b) == ~a.nan /\ ~b.nan /\ a.v < b.v

\* a >= b in place of a > b.
Ge(a, b) == ~a.nan /\ ~b.nan /\ a.v >= b.v

Gt(a, b) == ~a.nan /\ ~b.nan /\ a.v > b.v

----------------------------------------------------------------------------
(* Requests *)

Keywords == {"restaurant", "bar", "club", "gym", "fitness", "park"}

TransportModes == {"driving", "transit", "walking", "cycling"}

FlightModes == {"none", "catching", "pickup"}

\* Map pins: the straight-line distance haversineDistance returns between
\* the start pin "home" (40.7128, -74.0060) and each destination pin, in metres.
\*   jfk (40.6413, -73.7781)  stamford (41.0534, -73.5387)  lax (33.9416, -118.4085)
haversineDistance(a, b) ==
    CASE a = b -> 0
      [] {a, b} = {"home", "jfk"} -> 20798
      [] {a, b} = {"home", "stamford"} -> 54568
      [] {a, b} = {"home", "lax"} -> 3954641

NoCoords == "none"

\* An unvalidated time string of the request (flightDepartureTime,
\* pickupArrivalTime): absent or empty, not parseable, or "HH:MM".
Absent == [kind |-> "absent", h |-> 0, m |-> 0]
Invalid == [kind |-> "invalid", h |-> 0, m |-> 0]
At(h, m) == [kind |-> "time", h |-> h, m |-> m]

\* new Date(`${departureDate}T${hh}:${mm}`) is a valid Date exactly when the
\* month is 1..12 and the clock value is 00:00..23:59 or 24:00.
ValidClock(h, m) == (h <= 23 /\ m <= 59) \/ (h = 24 /\ m = 0)
ValidDate(month) == month >= 1 /\ month <= 12

\* new Date(`${plan.departureDate}T${t}`).getTime(), in minutes.
DateTimeOf(p, t) ==
    IF t.kind = "time" /\ ValidDate(p.month) /\ ValidClock(t.h, t.m)
    THEN Num(t.h * 60 + t.m)
    ELSE NaN

----------------------------------------------------------------------------
(* Time helpers *)

\* The hours added without the wrap at 24.
addMinutesNoWrap(hhmm, minutes) ==
    IF hhmm.kind # "time" THEN hhmm
    ELSE LET totalMin == hhmm.h * 60 + hhmm.m + minutes
         IN  At(totalMin \div 60, totalMin % 60)

\* addMinutesToHHMM: the string is returned unchanged when it is empty or
\* holds no colon; otherwise hours and minutes are added modulo 24 hours.
addMinutesToHHMM(hhmm, minutes) ==
    IF hhmm.kind # "time" THEN hhmm
    ELSE LET totalMin == hhmm.h * 60 + hhmm.m + minutes
         IN  At((totalMin \div 60) % 24, totalMin % 60)

\* Date.getHours() / Date.getMinutes() of an instant, in the server's zone.
GetHours(t) == (t % 1440) \div 60
GetMinutes(t) == t % 60

----------------------------------------------------------------------------
(* generateContext *)

\* buildDepartureISO: new Date(...).toISOString() throws a RangeError on an
\* invalid Date; this is whether it returns.
buildDepartureISO(p) == ValidDate(p.month) /\ ValidClock(p.depH, p.depM)

\* One speed for every mode.
speedKmHDriving(mode) == 45

speedKmH(mode) ==
    CASE mode = "driving" -> 45
      [] mode = "transit" -> 30
      [] mode = "walking" -> 5
      [] mode = "cycling" -> 15
      [] OTHER -> 45

HasCoords(p) ==
    /\ p.variant = "part_007"
    /\ p.currentCoords # NoCoords
    /\ p.destinationCoords # NoCoords

\* The seed without its wrap at 20.
locationSeedUnwrapped(p) == p.dest.len + p.locLen + p.pinLen

locationSeed(p) == (p.dest.len + p.locLen + p.pinLen) % 20

\* Two kilometres per unit of the seed.
FallbackDistanceKmSteep(p) == 5 + 2 * locationSeed(p)

\* Math.round(5 + locationSeed * 1.5), the halves counted exactly.
FallbackDistanceKm(p) == Round(10 + 3 * locationSeed(p), 2)

\* Math.round(straightLine * 1.3), the straight line counted in metres.
CoordDistanceKm(p) ==
    Round(haversineDistance(p.currentCoords, p.destinationCoords) * 13, 10000)

distanceKm(p) == IF HasCoords(p) THEN CoordDistanceKm(p) ELSE FallbackDistanceKm(p)

\* Miles cut off after the first decimal instead of rounded.
distanceMilesTruncated(km) == 6 * km + (km * 21371) \div 100000

\* Math.round(distanceKm * 0.621371 * 10) / 10, kept in tenths of a mile.
\* km * 6.21371 is split as 6 * km + km * 0.21371 to stay within 32 bits.
distanceMiles(km) == 6 * km + Round(km * 21371, 100000)

travelMinutes(p) == Round(distanceKm(p) * 60, speedKmH(p.transportMode))

isFlightModeCtx(p) == p.variant = "part_007" /\ p.flightMode # "none"

venueCloseHour(dest) ==
    IF "restaurant" \in dest.kw THEN 22
    ELSE IF "bar" \in dest.kw \/ "club" \in dest.kw THEN 2
    ELSE IF "gym" \in dest.kw \/ "fitness" \in dest.kw THEN 21
    ELSE IF "park" \in dest.kw THEN 20
    ELSE 18

\* `${h > 12 ? h - 12 : h}:00 ${h >= 12 ? "PM" : "AM"}`
FormatClosing(h) ==
    [hour |-> IF h > 12 THEN h - 12 ELSE h, ampm |-> IF h >= 12 THEN "PM" ELSE "AM"]

NotApplicable == [hour |-> 0, ampm |-> "N/A"]

closingTime(p) ==
    IF isFlightModeCtx(p) THEN NotApplicable ELSE FormatClosing(venueCloseHour(p.dest))

Undefined == "undefined"

\* const contextResult: ContextSummary = { ... }
contextResult(p, clock) ==
    LET departure == p.depH * 60 + p.depM
        km == distanceKm(p)
        travel == travelMinutes(p)
        new == p.variant = "part_007"
    IN  [ destination |-> p.dest,
          eventName |-> p.hasEvent,
          departureTime |-> departure,
          userDepartureTime |-> IF new THEN At(p.depH, p.depM) ELSE Absent,
          userTimezone |-> IF new THEN "Local" ELSE Undefined,
          currentTime |-> clock,
          estimatedTravelMinutes |-> travel,
          estimatedArrivalTime |-> departure + travel,
          userArrivalTime |->
              IF new THEN addMinutesToHHMM(At(p.depH, p.depM), travel) ELSE Absent,
          venueHours |->
              IF isFlightModeCtx(p)
              THEN [text |-> "Airport - 24/7", close |-> NotApplicable]
              ELSE [text |-> "9:00 AM - ", close |-> closingTime(p)],
          venueClosingTime |-> closingTime(p),
          transportMode |-> p.transportMode,
          distanceKm |-> km,
          distanceMiles |-> distanceMiles(km),
          flightMode |-> Undefined,
          flightDepartureTime |-> Absent,
          pickupArrivalTime |-> Absent ]

\* if (plan.flightMode && plan.flightMode !== "none") { contextResult.flightMode = ... }
WithFlightFields(p, c) ==
    IF p.flightMode = "none" THEN c
    ELSE [c EXCEPT
            !.flightMode = p.flightMode,
            !.flightDepartureTime =
                IF p.flightMode = "catching" THEN p.flightDepartureTime ELSE Absent,
            !.pickupArrivalTime =
                IF p.flightMode = "pickup" THEN p.pickupArrivalTime ELSE Absent]

\* A context whose arrival is counted from the server clock.
generateContextFromNow(p, clock) ==
    WithFlightFields(p, [contextResult(p, clock) EXCEPT
                           !.estimatedArrivalTime = clock + travelMinutes(p)])

generateContext(p, clock) == WithFlightFields(p, contextResult(p, clock))

NoContext == "none"

----------------------------------------------------------------------------
(* generateMockAnalysis, one operator per check, in the order of the code. *)
(* A risk or suggestion is [type, title, fig]: fig holds the computed      *)
(* figures its description prints.  executed lists the checks that ran.    *)

Entry(type, title, fig) == [type |-> type, title |-> title, fig |-> fig]

InitialAnalysis ==
    [ risks |-> <<>>,
      suggestions |-> <<>>,
      overallStatus |-> "good",
      statusMessage |-> "Your plan looks solid! You should arrive with plenty of time.",
      statusFig |-> <<>>,
      reasoning |-> "",
      executed |-> <<>> ]

isFlightMode(p) == p.flightMode = "catching" \/ p.flightMode = "pickup"

\* The hour read back without the AM/PM adjustment.
closingHour12(closing) ==
    IF closing.ampm \notin {"AM", "PM"} THEN 18 ELSE closing.hour

\* The closing hour read back from context.venueClosingTime by
\* /(\d+):(\d+)\s*(AM|PM)/i; 18 when the string does not match.
closingHour24(closing) ==
    IF closing.ampm \notin {"AM", "PM"} THEN 18
    ELSE IF closing.ampm = "PM" /\ closing.hour # 12 THEN closing.hour + 12
    ELSE IF closing.ampm = "AM" /\ closing.hour = 12 THEN 0
    ELSE closing.hour

\* The minutes of the arrival time left out.
minutesBeforeCloseByHour(ctx) ==
    closingHour24(ctx.venueClosingTime) * 60 - GetHours(ctx.estimatedArrivalTime) * 60

minutesBeforeClose(ctx) ==
    closingHour24(ctx.venueClosingTime) * 60
      - (GetHours(ctx.estimatedArrivalTime) * 60 + GetMinutes(ctx.estimatedArrivalTime))

\* The closing-time check run for every request.
RunsClosingCheckAlways(p) == TRUE

\* Whether the closing-time check runs: part_007 skips it for flight trips,
\* the earlier revision runs it for every request.
RunsClosingCheck(p) == p.variant = "routes" \/ ~isFlightMode(p)

ClosingCheck(p, ctx, s) ==
    LET mbc == minutesBeforeClose(ctx)
        ran == [s EXCEPT !.executed = Append(@, "closing")]
    IN  IF ~RunsClosingCheck(p) THEN s
        ELSE IF mbc < 0 THEN
            [ran EXCEPT
                !.overallStatus = "danger",
                !.statusMessage = "You'll arrive after the venue closes. Consider going earlier or another day.",
                !.statusFig = <<>>,
                !.risks = Append(@, Entry("danger", "Arriving After Closing Time",
                                          <<Num(ctx.estimatedTravelMinutes)>>)),
                !.suggestions = Append(@, Entry("timing", "Leave Earlier", <<Num(Abs(mbc) + 30)>>))]
        ELSE IF mbc < 60 THEN
            [ran EXCEPT
                !.overallStatus = "caution",
                !.statusMessage = "Tight timing - you'll arrive close to closing time. Consider adjusting.",
                !.statusFig = <<>>,
                !.risks = Append(@, Entry("warning", "Cutting It Close", <<Num(mbc)>>)),
                !.suggestions = Append(@, Entry("timing", "Consider Leaving Sooner", <<>>))]
        ELSE
            [ran EXCEPT
                !.risks = Append(@, Entry("info", "Good Timing", <<Num(mbc)>>))]

\* A long-travel check that already fires at 45 minutes.
LongTravelCheckFrom45(p, ctx, s) ==
    IF ctx.estimatedTravelMinutes >= 45 THEN
        LET withRisk ==
                [s EXCEPT
                    !.executed = Append(@, "longTravel"),
                    !.risks = Append(@, Entry("warning", "Long Travel Time",
                                              <<Num(ctx.distanceKm), Num(ctx.estimatedTravelMinutes)>>))]
        IN  IF p.transportMode = "driving" THEN
                [withRisk EXCEPT
                    !.suggestions = Append(@, Entry("alternative",
                        IF p.variant = "part_007" /\ isFlightMode(p)
                        THEN "Consider Rideshare" ELSE "Consider Public Transit", <<>>))]
            ELSE withRisk
    ELSE s

\* A long-travel check that also raises the status to caution.
LongTravelCheckEscalating(p, ctx, s) ==
    IF ctx.estimatedTravelMinutes > 45 THEN
        LET withRisk ==
                [s EXCEPT
                    !.executed = Append(@, "longTravel"),
                    !.overallStatus = IF @ = "danger" THEN "danger" ELSE "caution",
                    !.risks = Append(@, Entry("warning", "Long Travel Time",
                                              <<Num(ctx.distanceKm), Num(ctx.estimatedTravelMinutes)>>))]
        IN  IF p.transportMode = "driving" THEN
                [withRisk EXCEPT
                    !.suggestions = Append(@, Entry("alternative",
                        IF p.variant = "part_007" /\ isFlightMode(p)
                        THEN "Consider Rideshare" ELSE "Consider Public Transit", <<>>))]
            ELSE withRisk
    ELSE s

LongTravelCheck(p, ctx, s) ==
    IF ctx.estimatedTravelMinutes > 45 THEN
        LET withRisk ==
                [s EXCEPT
                    !.executed = Append(@, "longTravel"),
                    !.risks = Append(@, Entry("warning", "Long Travel Time",
                                              <<Num(ctx.distanceKm), Num(ctx.estimatedTravelMinutes)>>))]
        IN  IF p.transportMode = "driving" THEN
                [withRisk EXCEPT
                    !.suggestions = Append(@, Entry("alternative",
                        IF p.variant = "part_007" /\ isFlightMode(p)
                        THEN "Consider Rideshare" ELSE "Consider Public Transit", <<>>))]
            ELSE withRisk
    ELSE s

\* The rush-hour risk put at the head of the list.
RushHourCheckFirst(p, ctx, s) ==
    LET arrivalHour == GetHours(ctx.estimatedArrivalTime)
    IN  IF arrivalHour >= 17 /\ arrivalHour <= 19 /\ p.transportMode = "driving" THEN
            [s EXCEPT
                !.executed = Append(@, "rushHour"),
                !.risks = <<Entry("warning", "Rush Hour Traffic", <<>>)>> \o @,
                !.suggestions = Append(@, Entry("timing", "Avoid Rush Hour", <<>>))]
        ELSE s

RushHourCheck(p, ctx, s) ==
    LET arrivalHour == GetHours(ctx.estimatedArrivalTime)
    IN  IF arrivalHour >= 17 /\ arrivalHour <= 19 /\ p.transportMode = "driving" THEN
            [s EXCEPT
                !.executed = Append(@, "rushHour"),
                !.risks = Append(@, Entry("warning", "Rush Hour Traffic", <<>>)),
                !.suggestions = Append(@, Entry("timing", "Avoid Rush Hour", <<>>))]
        ELSE s

\* The status set to caution whatever it was.
SetCaution(status) == "caution"

\* overallStatus === "danger" ? "danger" : "caution"
KeepDanger(status) == IF status = "danger" THEN "danger" ELSE "caution"

\* Math.round((a - b) / 60000) of two instants; NaN when either is NaN.
MinutesBetween(a, b) == IF a.nan \/ b.nan THEN NaN ELSE Num(a.v - b.v)

\* Math.max(0, x)
Max0(x) == IF x.nan THEN NaN ELSE Num(Max(0, x.v))

\* Every time string taken as given.
AlwaysTruthy(t) == TRUE

Truthy(t) == t.kind # "absent"

CatchingBranch(p, ctx, s) ==
    LET new == p.variant = "part_007"
        flightDateTime == DateTimeOf(p, p.flightDepartureTime)
        arrivalAtAirport == Num(ctx.estimatedArrivalTime)
        bufferMinutes == MinutesBetween(flightDateTime, arrivalAtAirport)
        ran == [s EXCEPT !.executed = Append(@, "catching")]
        checked ==
            IF ~Truthy(p.flightDepartureTime) THEN ran
            ELSE IF Lt(bufferMinutes, Num(60)) THEN
                [ran EXCEPT
                    !.overallStatus = "danger",
                    !.statusMessage =
                        IF new THEN "Cutting it too close - only N min before your flight."
                        ELSE "You may miss your flight! You won't have enough time for check-in and security.",
                    !.statusFig = IF new THEN <<Max0(bufferMinutes)>> ELSE <<>>,
                    !.risks = Append(@, Entry("danger",
                        IF new THEN "Not Enough Time at Airport" ELSE "High Risk of Missing Flight",
                        <<Max0(bufferMinutes)>>))]
            ELSE IF Lt(bufferMinutes, Num(120)) THEN
                [ran EXCEPT
                    !.overallStatus = KeepDanger(@),
                    !.statusMessage =
                        IF new THEN "Tight - N min buffer at the airport. Consider leaving earlier."
                        ELSE "Tight timing for your flight - consider leaving earlier.",
                    !.statusFig = IF new THEN <<bufferMinutes>> ELSE <<>>,
                    !.risks = Append(@, Entry("warning",
                        IF new THEN "Tight Buffer" ELSE "Tight Airport Buffer",
                        <<bufferMinutes>>))]
            ELSE
                [ran EXCEPT
                    !.statusMessage =
                        IF new THEN "Looking good - N min buffer at the airport before your flight."
                        ELSE @,
                    !.statusFig = IF new THEN <<bufferMinutes>> ELSE @,
                    !.risks = Append(@, Entry("info",
                        IF new THEN "Plenty of Time" ELSE "Good Airport Timing",
                        <<bufferMinutes>>))]
    IN  IF new THEN
            [checked EXCEPT
                !.suggestions = Append(@, Entry("tip", "Before You Leave", <<>>))]
        ELSE
            [checked EXCEPT
                !.suggestions = @ \o << Entry("tip", "Pre-Flight Checklist", <<>>),
                                        Entry("tip", "Airport Parking", <<>>) >>]

PickupBranch(p, ctx, s) ==
    LET new == p.variant = "part_007"
        pickupLandingTime == DateTimeOf(p, p.pickupArrivalTime)
        curbReadyTime == IF pickupLandingTime.nan THEN NaN ELSE Num(pickupLandingTime.v + 30)
        arrivalAtAirport == Num(ctx.estimatedArrivalTime)
        waitMin == MinutesBetween(curbReadyTime, arrivalAtAirport)
        ran == [s EXCEPT !.executed = Append(@, "pickup")]
        checked ==
            IF ~Truthy(p.pickupArrivalTime) THEN ran
            ELSE IF Gt(arrivalAtAirport, curbReadyTime) THEN
                [ran EXCEPT
                    !.overallStatus = KeepDanger(@),
                    !.statusMessage =
                        IF new THEN "You may arrive after your passenger is ready. Leave a bit earlier."
                        ELSE "You might arrive after your passenger is ready - they may have to wait.",
                    !.statusFig = <<>>,
                    !.risks = Append(@, Entry("warning",
                        IF new THEN "They Might Wait for You" ELSE "Late for Pickup", <<>>))]
            ELSE IF Gt(waitMin, Num(45)) THEN
                [ran EXCEPT
                    !.statusMessage =
                        IF new THEN "You'll arrive early - use the cell phone lot to wait." ELSE @,
                    !.statusFig = IF new THEN <<>> ELSE @,
                    !.risks = Append(@, Entry("info",
                        IF new THEN "You'll Be Early" ELSE "Early Arrival for Pickup", <<>>))]
            ELSE
                [ran EXCEPT
                    !.statusMessage =
                        IF new THEN "Good timing - you'll arrive right when they walk out." ELSE @,
                    !.statusFig = IF new THEN <<>> ELSE @,
                    !.risks = Append(@, Entry("info",
                        IF new THEN "Great Timing" ELSE "Good Pickup Timing", <<>>))]
    IN  [checked EXCEPT
            !.suggestions = @ \o
                << Entry("tip", IF new THEN "Pickup Tip" ELSE "Pickup Strategy", <<>>),
                   Entry("timing", IF new THEN "After Landing" ELSE "Baggage Claim Buffer", <<>>) >>]

RegularBranch(p, ctx, s) ==
    [s EXCEPT
        !.executed = Append(@, "regular"),
        !.suggestions = Append(@, Entry("tip",
            IF p.variant = "part_007" THEN "Double-Check Hours" ELSE "Check Before You Go",
            <<>>))]

\* if (catching) ... else if (pickup) ... else ...
ModeBranch(p, ctx, s) ==
    IF p.flightMode = "catching" THEN CatchingBranch(p, ctx, s)
    ELSE IF p.flightMode = "pickup" THEN PickupBranch(p, ctx, s)
    ELSE RegularBranch(p, ctx, s)

EventTip(p, ctx, s) ==
    IF p.hasEvent /\ ~isFlightMode(p) THEN
        [s EXCEPT
            !.executed = Append(@, "event"),
            !.suggestions = Append(@, Entry("tip",
                IF p.variant = "part_007" THEN "Arrive Early" ELSE "Event Preparation", <<>>))]
    ELSE s

\* The reasoning text: chosen by flightMode and the final overallStatus.
BuildReasoning(p, ctx, s) ==
    LET status == s.overallStatus
        text ==
            IF p.flightMode = "catching" THEN
                IF status = "danger" THEN "catching: not enough time"
                ELSE IF status = "caution" THEN "catching: timing is tight"
                ELSE "catching: timing looks solid"
            ELSE IF p.flightMode = "pickup" THEN
                IF p.variant = "routes" /\ status = "danger" THEN "pickup: timing concern"
                ELSE IF status = "caution" THEN "pickup: a little late"
                ELSE "pickup: timing looks good"
            ELSE
                IF status = "danger" THEN "regular: arrive after it closes"
                ELSE IF status = "caution" THEN "regular: close to closing time"
                ELSE "regular: well-timed"
    IN  [s EXCEPT !.reasoning = text]

\* generateMockAnalysis as a whole: the checks applied in the code's order.
generateMockAnalysis(p, ctx) ==
    BuildReasoning(p, ctx,
      EventTip(p, ctx,
        ModeBranch(p, ctx,
          RushHourCheck(p, ctx,
            LongTravelCheck(p, ctx,
              ClosingCheck(p, ctx, InitialAnalysis))))))

----------------------------------------------------------------------------
(* The requests the engine is run on *)

Dest(len, kw) == [len |-> len, kw |-> kw]

\* "Joe's Restaurant & Bar", "Downtown Bar", "Central Park", "City Gym",
\* "Fitness Club 9", "JFK Airport", "Zoo"
Dests ==
    { Dest(22, {"restaurant", "bar"}), Dest(12, {"bar"}), Dest(12, {"park"}),
      Dest(8, {"gym"}), Dest(14, {"fitness", "club"}), Dest(11, {}), Dest(3, {}) }

Departure(month, h, m) == [month |-> month, h |-> h, m |-> m]

\* departureDate / departureTime pairs that pass planRequestSchema's digit
\* patterns; month 13 and the clock values 24:30 and 99:99 are no real values.
Departures ==
    { Departure(1, 0, 30), Departure(1, 9, 0), Departure(1, 13, 20),
      Departure(1, 16, 30), Departure(1, 17, 15), Departure(1, 19, 40),
      Departure(1, 21, 30), Departure(1, 23, 30), Departure(1, 24, 0),
      Departure(1, 24, 30), Departure(1, 99, 99), Departure(13, 9, 0) }

Flight(mode, dep, arr) == [mode |-> mode, dep |-> dep, arr |-> arr]

Flights ==
    {Flight("none", Absent, Absent)}
    \cup {Flight("catching", t, Absent) :
            t \in {Absent, Invalid, At(17, 45), At(18, 30), At(19, 15), At(22, 0), At(25, 0)}}
    \cup {Flight("pickup", Absent, t) :
            t \in {Absent, Invalid, At(16, 0), At(17, 0), At(18, 0), At(21, 0), At(25, 0)}}

CoordPairs == {<<NoCoords, NoCoords>>, <<"home", "jfk">>, <<"home", "stamford">>}

Plan(variant, dest, locLen, pinLen, coords, mode, d, f, ev) ==
    [ variant |-> variant,
      dest |-> dest,
      locLen |-> locLen,
      pinLen |-> pinLen,
      currentCoords |-> coords[1],
      destinationCoords |-> coords[2],
      transportMode |-> mode,
      month |-> d.month,
      depH |-> d.h,
      depM |-> d.m,
      flightMode |-> f.mode,
      flightDepartureTime |-> f.dep,
      pickupArrivalTime |-> f.arr,
      hasEvent |-> ev ]

\* currentLocation defaults to "Current Location" (16 characters).
DefaultLocLen == 16

EnginePlans(variants) ==
    { Plan(v, dest, DefaultLocLen, 0, c, mode, d, f, ev) :
        v \in variants, dest \in Dests, c \in CoordPairs, mode \in TransportModes,
        d \in Departures, f \in Flights, ev \in BOOLEAN }

----------------------------------------------------------------------------
(* One invocation of the analysis, check by check *)

Result ==
    [ context |-> context,
      risks |-> st.risks,
      suggestions |-> st.suggestions,
      reasoning |-> st.reasoning,
      overallStatus |-> st.overallStatus,
      statusMessage |-> st.statusMessage,
      statusFig |-> st.statusFig ]

GenerateContext ==
    /\ pc = "start"
    /\ IF buildDepartureISO(plan)
       THEN /\ context' = generateContext(plan, now)
            /\ st' = InitialAnalysis
            /\ pc' = "closing"
       ELSE /\ pc' = "threw"
            /\ UNCHANGED <<context, st>>
    /\ UNCHANGED <<plan, now, prev, handlerVars, peer, clientVars>>

Step(from, to, next) ==
    /\ pc = from
    /\ st' = next
    /\ pc' = to
    /\ UNCHANGED <<plan, now, context, prev, handlerVars, peer, clientVars>>

DoClosingCheck == Step("closing", "longTravel", ClosingCheck(plan, context, st))

DoLongTravelCheck == Step("longTravel", "rushHour", LongTravelCheck(plan, context, st))

DoRushHourCheck == Step("rushHour", "mode", RushHourCheck(plan, context, st))

DoModeBranch == Step("mode", "event", ModeBranch(plan, context, st))

DoEventTip == Step("event", "reasoning", EventTip(plan, context, st))

DoBuildReasoning == Step("reasoning", "done", BuildReasoning(plan, context, st))

\* The same request is analysed again, later.
Reanalyze ==
    /\ pc = "done"
    /\ now < MaxNow
    /\ prev' = <<Result>>
    /\ now' = now + 1
    /\ pc' = "start"
    /\ UNCHANGED <<plan, context, st, handlerVars, peer, clientVars>>

EngineNext ==
    \/ GenerateContext
    \/ DoClosingCheck
    \/ DoLongTravelCheck
    \/ DoRushHourCheck
    \/ DoModeBranch
    \/ DoEventTip
    \/ DoBuildReasoning
    \/ Reanalyze

----------------------------------------------------------------------------
(* POST /api/agent/analyze-plan and the Redis layer *)

CacheTtl == 600
SessionTtl == 3600
AgentTtl == 1800

\* The clock advances in steps of half the analysis TTL.
TickSeconds == CacheTtl \div 2

\* buildCacheKey: the MD5 hash is taken to be injective on the raw string,
\* so the key is the tuple of the fields the raw string is built from.
\* Coordinates, eventName and destinationState are not part of it.
buildCacheKey(p) ==
    [ destinationName |-> p.dest,
      destinationPincode |-> p.pinLen,
      departureDate |-> p.month,
      departureTime |-> <<p.depH, p.depM>>,
      transportMode |-> p.transportMode,
      currentLocation |-> p.locLen,
      flightPart |->
          IF p.flightMode # "none"
          THEN <<p.flightMode, p.flightDepartureTime, p.pickupArrivalTime>>
          ELSE <<>> ]

\* The requests one session sends: a park visit, the same visit with map
\* pins, a flight to catch, and a departure time of "99:99".
HandlerPlans ==
    { Plan("part_007", Dest(12, {"park"}), DefaultLocLen, 0, <<NoCoords, NoCoords>>,
           "driving", Departure(1, 13, 20), Flight("none", Absent, Absent), FALSE),
      Plan("part_007", Dest(12, {"park"}), DefaultLocLen, 0, <<"home", "stamford">>,
           "driving", Departure(1, 13, 20), Flight("none", Absent, Absent), FALSE),
      Plan("part_007", Dest(11, {}), DefaultLocLen, 0, <<NoCoords, NoCoords>>,
           "driving", Departure(1, 16, 30), Flight("catching", At(17, 45), Absent), FALSE),
      Plan("part_007", Dest(12, {"park"}), DefaultLocLen, 0, <<NoCoords, NoCoords>>,
           "driving", Departure(1, 99, 99), Flight("none", Absent, Absent), FALSE) }

CacheKeys == {buildCacheKey(p) : p \in HandlerPlans}

\* What generateMockAnalysis returns: { risks, suggestions, reasoning,
\* overallStatus, statusMessage }.
Analysis(s) ==
    [ risks |-> s.risks,
      suggestions |-> s.suggestions,
      reasoning |-> s.reasoning,
      overallStatus |-> s.overallStatus,
      statusMessage |-> s.statusMessage,
      statusFig |-> s.statusFig ]

\* A result callTinyFish parsed from the agent's answer.
TinyFishAnalysis ==
    [ risks |-> <<Entry("info", "Live status", <<>>)>>,
      suggestions |-> <<>>,
      reasoning |-> "agent",
      overallStatus |-> "caution",
      statusMessage |-> "agent",
      statusFig |-> <<>> ]

\* callTinyFish: the parsed result, or <<>> when it throws (fetch rejects,
\* the status is not OK, or no line of the answer holds a result).
\* A parsed result is returned as soon as its risks, suggestions and
\* reasoning are truthy; overallStatus and statusMessage are not looked at.
TinyFishOutcomes == {"result", "partial result", "network error", "http error", "no result"}

\* An answer holding risks, suggestions and reasoning only.
TinyFishPartial ==
    [TinyFishAnalysis EXCEPT !.overallStatus = Undefined, !.statusMessage = Undefined]

callTinyFish(outcome) ==
    CASE outcome = "result" -> <<TinyFishAnalysis>>
      [] outcome = "partial result" -> <<TinyFishPartial>>
      [] OTHER -> <<>>

\* No fallback: the defaults are answered when the agent gave nothing.
OrDefaults(aiAnalysis, p, ctx) ==
    IF aiAnalysis = <<>> THEN Analysis(InitialAnalysis) ELSE aiAnalysis[1]

\* if (!aiAnalysis) aiAnalysis = generateMockAnalysis(plan, context)
OrMock(aiAnalysis, p, ctx) ==
    IF aiAnalysis = <<>> THEN Analysis(generateMockAnalysis(p, ctx)) ELSE aiAnalysis[1]

\* { context, ...aiAnalysis }
MakeResult(ctx, a) ==
    [ context |-> ctx,
      risks |-> a.risks,
      suggestions |-> a.suggestions,
      reasoning |-> a.reasoning,
      overallStatus |-> a.overallStatus,
      statusMessage |-> a.statusMessage,
      statusFig |-> a.statusFig ]

\* A Redis key: <<>> when never set, else its value and expiry instant.
Stored(value, ttl) == <<[value |-> value, expiresAt |-> now + ttl]>>

\* A key that never expires.
LiveForever(e) == e # <<>>

Live(e) == e # <<>> /\ now < e[1].expiresAt

\* if (!redisAvailable || !redisClient) return null
RedisUsable == redis.available /\ redis.client

\* Whether a Redis command issued now may throw: only on a faulty link.
Failures == IF redis.faulty THEN BOOLEAN ELSE {FALSE}

\* redisClient.get(key) inside try/catch: null on a miss, an expired key or
\* a thrown error.
RedisGet(e, fails) == IF RedisUsable /\ ~fails /\ Live(e) THEN <<e[1].value>> ELSE <<>>

\* redisClient.set(key, value, "EX", ttl) inside try/catch.
RedisSet(e, value, ttl, fails) == IF RedisUsable /\ ~fails THEN Stored(value, ttl) ELSE e

Idle ==
    [ pc |-> "idle", hit |-> FALSE, context |-> <<>>, previousState |-> <<>>,
      result |-> <<>>, calls |-> {}, tinyFishThrew |-> FALSE, wrote |-> {},
      newSession |-> <<>>, newAgent |-> <<>> ]

NoResponse == [code |-> 0, body |-> <<>>]

Respond(code, body) == [code |-> code, body |-> body]

EngineUnchanged == UNCHANGED <<pc, context, st, prev, peer, clientVars>>

\* app.post: planRequestSchema.safeParse, then buildCacheKey.
Receive ==
    /\ hd.pc \in {"idle", "responded"}
    /\ served < MaxRequests
    /\ served' = served + 1
    /\ \E p \in HandlerPlans, valid \in BOOLEAN :
         /\ plan' = p
         /\ IF valid
            THEN /\ hd' = [Idle EXCEPT !.pc = "cacheGet"]
                 /\ response' = NoResponse
            ELSE /\ hd' = [Idle EXCEPT !.pc = "responded"]
                 /\ response' = Respond(400, <<>>)
    /\ UNCHANGED <<now, redis, cache, session, agent, apiKey>>
    /\ EngineUnchanged

\* await cacheGet(cacheKey); on a miss generateContext runs, and its
\* exception is caught by the handler's catch: status 500.
DoCacheGet ==
    /\ hd.pc = "cacheGet"
    /\ \E fails \in Failures :
         LET cached == RedisGet(cache[buildCacheKey(plan)], fails)
         IN  IF cached # <<>>
             THEN /\ hd' = [hd EXCEPT !.pc = "sessionGet", !.hit = TRUE, !.result = cached]
                  /\ UNCHANGED response
             ELSE IF buildDepartureISO(plan)
             THEN /\ hd' = [hd EXCEPT !.pc = "agentGet",
                                    !.context = <<generateContext(plan, now)>>,
                                    !.calls = @ \cup {"generateContext"}]
                  /\ UNCHANGED response
             ELSE /\ hd' = [hd EXCEPT !.pc = "responded",
                                    !.calls = @ \cup {"generateContext"}]
                  /\ response' = Respond(500, <<>>)
    /\ UNCHANGED <<plan, now, redis, cache, session, agent, apiKey, served>>
    /\ EngineUnchanged

\* await agentStateGet(sessionId2); without an API key the mock analysis
\* is computed right away.
DoAgentGet ==
    /\ hd.pc = "agentGet"
    /\ \E fails \in Failures :
         LET previousState == RedisGet(agent, fails)
         IN  IF apiKey
             THEN hd' = [hd EXCEPT !.pc = "tinyfish", !.previousState = previousState]
             ELSE hd' = [hd EXCEPT
                          !.pc = "cacheSet",
                          !.previousState = previousState,
                          !.calls = @ \cup {"generateMockAnalysis"},
                          !.result = <<MakeResult(hd.context[1], OrMock(<<>>, plan, hd.context[1]))>>]
    /\ UNCHANGED <<plan, now, response, redis, cache, session, agent, apiKey, served>>
    /\ EngineUnchanged

\* await callTinyFish(...) inside try/catch, then the fallback.
DoTinyFish ==
    /\ hd.pc = "tinyfish"
    /\ \E outcome \in TinyFishOutcomes :
         LET aiAnalysis == callTinyFish(outcome)
         IN  hd' = [hd EXCEPT
                     !.pc = "cacheSet",
                     !.tinyFishThrew = (aiAnalysis = <<>>),
                     !.calls = @ \cup {"callTinyFish"}
                                 \cup (IF aiAnalysis = <<>> THEN {"generateMockAnalysis"} ELSE {}),
                     !.result = <<MakeResult(hd.context[1], OrMock(aiAnalysis, plan, hd.context[1]))>>]
    /\ UNCHANGED <<plan, now, response, redis, cache, session, agent, apiKey, served>>
    /\ EngineUnchanged

\* await cacheSet(cacheKey, JSON.stringify(result), 600)
DoCacheSet ==
    /\ hd.pc = "cacheSet"
    /\ \E fails \in Failures :
         LET key == buildCacheKey(plan)
         IN  /\ cache' = [cache EXCEPT ![key] = RedisSet(@, hd.result[1], CacheTtl, fails)]
             /\ hd' = [hd EXCEPT !.pc = "sessionGet",
                               !.wrote = IF RedisUsable /\ ~fails THEN @ \cup {"cache"} ELSE @]
    /\ UNCHANGED <<plan, now, response, redis, session, agent, apiKey, served>>
    /\ EngineUnchanged

SearchEntry(p, result) ==
    [destination |-> p.dest, status |-> result.overallStatus]

\* Keeps the whole list.
KeepAll(seq, n) == seq

FirstN(seq, n) == IF Len(seq) <= n THEN seq ELSE SubSeq(seq, 1, n)

EmptySession == [recentSearches |-> <<>>, lastTransportMode |-> Undefined]

\* updateSessionContext, up to its await sessionSet.
DoSessionGet ==
    /\ hd.pc = "sessionGet"
    /\ \E fails \in Failures :
         LET got == RedisGet(session, fails)
             existing == IF got = <<>> THEN EmptySession ELSE got[1]
             recentSearches ==
                 <<SearchEntry(plan, hd.result[1])>> \o FirstN(existing.recentSearches, 9)
         IN  hd' = [hd EXCEPT
                     !.pc = "sessionSet",
                     !.newSession = <<[existing EXCEPT
                                         !.recentSearches = recentSearches,
                                         !.lastTransportMode = plan.transportMode]>>]
    /\ UNCHANGED <<plan, now, response, redis, cache, session, agent, apiKey, served>>
    /\ EngineUnchanged

AgentState(p, result, previousState) ==
    [ lastDestination |-> p.dest,
      lastAnalysis |-> result.overallStatus,
      queryCount |-> (IF previousState = <<>> THEN 0 ELSE previousState[1].queryCount) + 1,
      recentDestinations |->
          <<p.dest>> \o
            FirstN(IF previousState = <<>> THEN <<>> ELSE previousState[1].recentDestinations, 4) ]

\* await sessionSet(...); a cache hit answers here, a miss goes on to
\* agentStateSet.
DoSessionSet ==
    /\ hd.pc = "sessionSet"
    /\ \E fails \in Failures :
         /\ session' = RedisSet(session, hd.newSession[1], SessionTtl, fails)
         /\ IF hd.hit
            THEN /\ hd' = [hd EXCEPT !.pc = "responded",
                                   !.wrote = IF RedisUsable /\ ~fails THEN @ \cup {"session"} ELSE @]
                 /\ response' = Respond(200, hd.result)
            ELSE /\ hd' = [hd EXCEPT
                            !.pc = "agentSet",
                            !.wrote = IF RedisUsable /\ ~fails THEN @ \cup {"session"} ELSE @,
                            !.newAgent = <<AgentState(plan, hd.result[1], hd.previousState)>>]
                 /\ UNCHANGED response
    /\ UNCHANGED <<plan, now, redis, cache, agent, apiKey, served>>
    /\ EngineUnchanged

\* await agentStateSet(...), then res.json(result).
DoAgentSet ==
    /\ hd.pc = "agentSet"
    /\ \E fails \in Failures :
         /\ agent' = RedisSet(agent, hd.newAgent[1], AgentTtl, fails)
         /\ hd' = [hd EXCEPT !.pc = "responded",
                           !.wrote = IF RedisUsable /\ ~fails THEN @ \cup {"agent"} ELSE @]
    /\ response' = Respond(200, hd.result)
    /\ UNCHANGED <<plan, now, redis, cache, session, apiKey, served>>
    /\ EngineUnchanged

\* The "error" / "close" handlers registered on the Redis object; they stay
\* registered when initRedis drops its reference to the object.
RedisDown ==
    /\ redis.faulty
    /\ redis.emitter /\ redis.available
    /\ redis' = [redis EXCEPT !.available = FALSE]
    /\ UNCHANGED <<plan, now, hd, response, cache, session, agent, apiKey, served>>
    /\ EngineUnchanged

\* The "connect" handler, run when the Redis object connects or reconnects.
RedisUp ==
    /\ redis.faulty
    /\ redis.emitter /\ ~redis.available
    /\ redis' = [redis EXCEPT !.available = TRUE]
    /\ UNCHANGED <<plan, now, hd, response, cache, session, agent, apiKey, served>>
    /\ EngineUnchanged

HandlerUnchanged == UNCHANGED <<plan, now, hd, response, cache, session, agent, apiKey, served>>

\* initRedis up to its await: without REDIS_HOST or REDIS_PASSWORD it
\* returns; otherwise it creates the Redis object (lazyConnect), registers
\* the three handlers on it and calls connect().
InitRedisStart ==
    /\ redis.init = "start"
    /\ \E configured \in BOOLEAN :
         redis' = IF configured
                  THEN [redis EXCEPT !.client = TRUE, !.emitter = TRUE, !.init = "connecting"]
                  ELSE [redis EXCEPT !.init = "done"]
    /\ HandlerUnchanged
    /\ EngineUnchanged

\* await redisClient.connect() resolves: redisAvailable = true.
ConnectResolves ==
    /\ redis.init = "connecting"
    /\ redis' = [redis EXCEPT !.available = TRUE, !.init = "done"]
    /\ HandlerUnchanged
    /\ EngineUnchanged

\* await redisClient.connect() rejects (the connection closed before it was
\* ready): the catch sets redisAvailable = false and redisClient = null.
\* The Redis object itself lives on and retries under its retryStrategy.
ConnectRejects ==
    /\ redis.init = "connecting"
    /\ redis' = [redis EXCEPT !.available = FALSE, !.client = FALSE, !.init = "done"]
    /\ HandlerUnchanged
    /\ EngineUnchanged

\* retryStrategy returns null after the fifth attempt: the object stops
\* reconnecting and emits no further "connect".
RetriesExhausted ==
    /\ redis.init = "done"
    /\ redis.emitter /\ ~redis.available
    /\ redis' = [redis EXCEPT !.emitter = FALSE]
    /\ HandlerUnchanged
    /\ EngineUnchanged

\* Time passes between two requests (a handler run is short against a tick).
Tick ==
    /\ hd.pc \in {"idle", "responded"}
    /\ now < MaxTicks * TickSeconds
    /\ now' = now + TickSeconds
    /\ UNCHANGED <<plan, hd, response, redis, cache, session, agent, apiKey, served>>
    /\ EngineUnchanged

HandlerNext ==
    \/ Receive
    \/ DoCacheGet
    \/ DoAgentGet
    \/ DoTinyFish
    \/ DoCacheSet
    \/ DoSessionGet
    \/ DoSessionSet
    \/ DoAgentSet

----------------------------------------------------------------------------
(* Two invocations of the handler in one process *)

NoPeer ==
    [hd |-> Idle, plan |-> CHOOSE p \in HandlerPlans : TRUE, response |-> NoResponse]

\* At an await the event loop runs the continuation of the other invocation,
\* or accepts the next request: the two invocations trade places.
Yield ==
    /\ hd.pc \notin {"idle", "responded"} \/ peer.hd.pc \notin {"idle", "responded"}
    /\ peer' = [hd |-> hd, plan |-> plan, response |-> response]
    /\ hd' = peer.hd
    /\ plan' = peer.plan
    /\ response' = peer.response
    /\ UNCHANGED <<now, pc, context, st, prev, redis, cache, session, agent, apiKey,
                   served, clientVars>>

----------------------------------------------------------------------------
(* The flight dialog and the plan form *)

\* What the user types into the dialog's inputs.
Typed ==
    [ airline |-> {"", "United", "Delta"},
      flightNumber |-> {"", "UA 123"},
      city |-> {"", "Chicago"},
      time |-> {"", "17:45"} ]

\* useForm defaultValues
FormDefaults ==
    [ flightMode |-> "none",
      flightNumber |-> "",
      flightAirline |-> "",
      flightDestinationCity |-> "",
      flightDepartureTime |-> "",
      pickupFlightNumber |-> "",
      pickupArrivalTime |-> "" ]

\* value || undefined, and back: value || ""
OrUndefined(v) == IF v = "" THEN Undefined ELSE v

OrEmpty(v) == IF v = Undefined THEN "" ELSE v

\* The useState initial values of FlightDialog; flightDialogOpen false,
\* flightEditData undefined, onConfirm not called yet.
DialogClosed ==
    [ open |-> FALSE,
      initialData |-> <<>>,
      step |-> "ask_intent",
      flightNumber |-> "",
      airline |-> "",
      destinationCity |-> "",
      flightTime |-> "",
      pickupFlight |-> "",
      pickupAirline |-> "",
      pickupTime |-> "",
      confirmed |-> <<>> ]

ClientQuiet ==
    /\ form = FormDefaults
    /\ dialog = DialogClosed

\* FlightDialog's useEffect on [open, initialData], run as the dialog opens.
OpenWith(d, initialData) ==
    IF initialData # <<>> /\ initialData[1].flightMode = "catching"
    THEN [d EXCEPT !.open = TRUE, !.initialData = initialData,
                   !.step = "catching_details",
                   !.flightNumber = OrEmpty(initialData[1].flightNumber),
                   !.airline = OrEmpty(initialData[1].flightAirline),
                   !.destinationCity = OrEmpty(initialData[1].flightDestinationCity),
                   !.flightTime = OrEmpty(initialData[1].flightDepartureTime),
                   !.pickupFlight = "", !.pickupAirline = "", !.pickupTime = ""]
    ELSE IF initialData # <<>> /\ initialData[1].flightMode = "pickup"
    THEN [d EXCEPT !.open = TRUE, !.initialData = initialData,
                   !.step = "pickup_details",
                   !.pickupFlight = OrEmpty(initialData[1].pickupFlightNumber),
                   !.pickupAirline = OrEmpty(initialData[1].flightAirline),
                   !.pickupTime = OrEmpty(initialData[1].pickupArrivalTime),
                   !.flightNumber = "", !.airline = "", !.destinationCity = "",
                   !.flightTime = ""]
    ELSE [d EXCEPT !.open = TRUE, !.initialData = initialData,
                   !.step = "ask_intent",
                   !.flightNumber = "", !.airline = "", !.destinationCity = "",
                   !.flightTime = "",
                   !.pickupFlight = "", !.pickupAirline = "", !.pickupTime = ""]

\* handleFlightConfirm: the form fields it sets from the dialog's data.
handleFlightConfirm(f, data) ==
    IF data.flightMode = "catching"
    THEN [f EXCEPT !.flightMode = "catching",
                   !.flightNumber = OrEmpty(data.flightNumber),
                   !.flightAirline = OrEmpty(data.flightAirline),
                   !.flightDestinationCity = OrEmpty(data.flightDestinationCity),
                   !.flightDepartureTime = OrEmpty(data.flightDepartureTime)]
    ELSE IF data.flightMode = "pickup"
    THEN [f EXCEPT !.flightMode = "pickup",
                   !.pickupFlightNumber = OrEmpty(data.pickupFlightNumber),
                   !.pickupArrivalTime = OrEmpty(data.pickupArrivalTime)]
    ELSE [f EXCEPT !.flightMode = data.flightMode]

\* The FlightData object the dialog passes to onConfirm.
FlightData(mode, number, airline, city, time, pickupNumber, pickupTime) ==
    [ flightMode |-> mode,
      flightNumber |-> number,
      flightAirline |-> airline,
      flightDestinationCity |-> city,
      flightDepartureTime |-> time,
      pickupFlightNumber |-> pickupNumber,
      pickupArrivalTime |-> pickupTime ]

ServerUnchanged == UNCHANGED <<engineVars, handlerVars, peer>>

\* onConfirm = handleFlightConfirm, then setFlightDialogOpen(false).
Confirm(data) ==
    /\ form' = handleFlightConfirm(form, data)
    /\ dialog' = [dialog EXCEPT !.open = FALSE, !.confirmed = <<data>>]
    /\ ServerUnchanged

\* handleDestinationBlur on an airport name while flightMode is "none".
DestinationBlur ==
    /\ ~dialog.open
    /\ form.flightMode = "none"
    /\ dialog' = OpenWith(dialog, <<>>)
    /\ UNCHANGED form
    /\ ServerUnchanged

\* handleCatching / handlePickup
ChooseIntent ==
    /\ dialog.open /\ dialog.step = "ask_intent"
    /\ \E next \in {"catching_details", "pickup_details"} :
         dialog' = [dialog EXCEPT !.step = next]
    /\ UNCHANGED form
    /\ ServerUnchanged

\* The Back buttons: setStep("ask_intent")
Back ==
    /\ dialog.open /\ dialog.step \in {"catching_details", "pickup_details"}
    /\ dialog' = [dialog EXCEPT !.step = "ask_intent"]
    /\ UNCHANGED form
    /\ ServerUnchanged

\* The onChange handlers of the catching step's four inputs.
TypeCatching ==
    /\ dialog.open /\ dialog.step = "catching_details"
    /\ \/ \E v \in Typed.airline : dialog' = [dialog EXCEPT !.airline = v]
       \/ \E v \in Typed.flightNumber : dialog' = [dialog EXCEPT !.flightNumber = v]
       \/ \E v \in Typed.city : dialog' = [dialog EXCEPT !.destinationCity = v]
       \/ \E v \in Typed.time : dialog' = [dialog EXCEPT !.flightTime = v]
    /\ UNCHANGED form
    /\ ServerUnchanged

\* The onChange handlers of the pickup step's three inputs.
TypePickup ==
    /\ dialog.open /\ dialog.step = "pickup_details"
    /\ \/ \E v \in Typed.airline : dialog' = [dialog EXCEPT !.pickupAirline = v]
       \/ \E v \in Typed.flightNumber : dialog' = [dialog EXCEPT !.pickupFlight = v]
       \/ \E v \in Typed.time : dialog' = [dialog EXCEPT !.pickupTime = v]
    /\ UNCHANGED form
    /\ ServerUnchanged

\* handleCatchingSubmit; the button is disabled without a flight number and
\* a destination city.
CatchingSubmit ==
    /\ dialog.open /\ dialog.step = "catching_details"
    /\ ~(dialog.flightNumber = "" /\ dialog.destinationCity = "")
    /\ Confirm(FlightData("catching", OrUndefined(dialog.flightNumber),
                          OrUndefined(dialog.airline),
                          OrUndefined(dialog.destinationCity),
                          OrUndefined(dialog.flightTime), Undefined, Undefined))

\* handlePickupSubmit; the button is disabled without a flight number and
\* a landing time.
PickupSubmit ==
    /\ dialog.open /\ dialog.step = "pickup_details"
    /\ ~(dialog.pickupFlight = "" /\ dialog.pickupTime = "")
    /\ Confirm(FlightData("pickup", Undefined, OrUndefined(dialog.pickupAirline),
                          Undefined, Undefined, OrUndefined(dialog.pickupFlight),
                          OrUndefined(dialog.pickupTime)))

\* handleSkip
Skip ==
    /\ dialog.open /\ dialog.step = "ask_intent"
    /\ Confirm(FlightData("none", Undefined, Undefined, Undefined, Undefined,
                          Undefined, Undefined))

\* onClose: setFlightDialogOpen(false); setFlightEditData(undefined)
CloseDialog ==
    /\ dialog.open
    /\ dialog' = [dialog EXCEPT !.open = FALSE, !.initialData = <<>>]
    /\ UNCHANGED form
    /\ ServerUnchanged

\* The pencil button of the flight banner: setFlightEditData from the
\* form's current values, setFlightDialogOpen(true).
EditFlight ==
    /\ ~dialog.open
    /\ form.flightMode # "none"
    /\ dialog' = OpenWith(dialog,
                   << FlightData(form.flightMode,
                                 OrUndefined(form.flightNumber),
                                 OrUndefined(form.flightAirline),
                                 OrUndefined(form.flightDestinationCity),
                                 OrUndefined(form.flightDepartureTime),
                                 OrUndefined(form.pickupFlightNumber),
                                 OrUndefined(form.pickupArrivalTime)) >>)
    /\ UNCHANGED form
    /\ ServerUnchanged

\* clearFlightData, the banner's other button.
ClearFlight ==
    /\ ~dialog.open
    /\ form.flightMode # "none"
    /\ form' = FormDefaults
    /\ dialog' = [dialog EXCEPT !.confirmed = <<>>]
    /\ ServerUnchanged

ClientNext ==
    \/ DestinationBlur
    \/ ChooseIntent
    \/ Back
    \/ TypeCatching
    \/ TypePickup
    \/ CatchingSubmit
    \/ PickupSubmit
    \/ Skip
    \/ CloseDialog
    \/ EditFlight
    \/ ClearFlight

----------------------------------------------------------------------------
(* Specifications *)

HandlerQuiet ==
    /\ hd = Idle
    /\ response = NoResponse
    /\ redis = [available |-> FALSE, client |-> FALSE, faulty |-> FALSE, emitter |-> FALSE, init |-> "done"]
    /\ cache = [k \in CacheKeys |-> <<>>]
    /\ session = <<>>
    /\ agent = <<>>
    /\ apiKey = FALSE
    /\ served = 0
    /\ peer = NoPeer
    /\ ClientQuiet

EngineInit(plans) ==
    /\ plan \in plans
    /\ now = 0
    /\ pc = "start"
    /\ context = NoContext
    /\ st = InitialAnalysis
    /\ prev = <<>>
    /\ HandlerQuiet

\* The engine of src/unnamed/part_007.
Init == EngineInit(EnginePlans({"part_007"}))

Next == EngineNext

Spec == Init /\ [][Next]_vars

\* The context builder over the name lengths and map pins.
CtxPlans ==
    { Plan("part_007", Dest(len, {}), locLen, pinLen, <<cur, dst>>, mode,
           Departure(1, 9, 0), Flight("none", Absent, Absent), FALSE) :
        len \in 1..MaxNameLen, locLen \in {0, DefaultLocLen}, pinLen \in {0, 5},
        cur \in {NoCoords, "home"}, dst \in {NoCoords, "home", "jfk", "stamford", "lax"},
        mode \in TransportModes }

InitCtx == EngineInit(CtxPlans)

SpecCtx == InitCtx /\ [][Next]_vars

\* Trips of part_007 whose arrival moves minute by minute across the
\* thresholds of the closing, flight-buffer and curb-ready checks.
EdgeDepartures ==
    {Departure(1, hh, mm) : hh \in 16..18, mm \in 0..59}

EdgeFlights ==
    { Flight("none", Absent, Absent),
      Flight("catching", At(19, 15), Absent),
      Flight("pickup", Absent, At(17, 0)) }

EdgePlans ==
    { Plan("part_007", dest, DefaultLocLen, 0, <<NoCoords, NoCoords>>, mode, d, f, FALSE) :
        dest \in {Dest(11, {}), Dest(12, {"park"})}, mode \in {"driving", "transit"},
        d \in EdgeDepartures, f \in EdgeFlights }

InitEdges == EngineInit(EdgePlans)

SpecEdges == InitEdges /\ [][Next]_vars

\* The engine of both revisions.
InitVariants == EngineInit(EnginePlans({"part_007", "routes"}))

SpecVariants == InitVariants /\ [][Next]_vars

HandlerInit(redisStates) ==
    /\ plan = CHOOSE p \in HandlerPlans : TRUE
    /\ now = 0
    /\ pc = "idle"
    /\ context = NoContext
    /\ st = InitialAnalysis
    /\ prev = <<>>
    /\ hd = Idle
    /\ response = NoResponse
    /\ redis \in redisStates
    /\ cache = [k \in CacheKeys |-> <<>>]
    /\ session = <<>>
    /\ agent = <<>>
    /\ apiKey \in BOOLEAN
    /\ served = 0
    /\ peer = NoPeer
    /\ ClientQuiet

\* The handler with Redis not configured (no client), or configured over a
\* faulty link: the connection drops and returns, commands may throw.
\* The requests follow each other within one tick of the clock.
InitHandler ==
    HandlerInit({ [available |-> FALSE, client |-> FALSE, faulty |-> FALSE, emitter |-> FALSE, init |-> "done"],
                  [available |-> FALSE, client |-> TRUE, faulty |-> TRUE, emitter |-> TRUE, init |-> "done"],
                  [available |-> TRUE, client |-> TRUE, faulty |-> TRUE, emitter |-> TRUE, init |-> "done"] })

NextHandler == HandlerNext \/ RedisDown \/ RedisUp

SpecHandler == InitHandler /\ [][NextHandler]_vars

\* The handler with Redis connected and working, the clock advancing
\* between the requests.
InitCache == HandlerInit({[available |-> TRUE, client |-> TRUE, faulty |-> FALSE, emitter |-> TRUE, init |-> "done"]})

NextCache == HandlerNext \/ Tick

SpecCache == InitCache /\ [][NextCache]_vars

\* The server from its start: initRedis runs while requests are served and
\* the Redis object emits its events.
InitRedisModule ==
    HandlerInit({[available |-> FALSE, client |-> FALSE, faulty |-> TRUE,
                  emitter |-> FALSE, init |-> "start"]})

NextRedis ==
    \/ HandlerNext
    \/ InitRedisStart
    \/ ConnectResolves
    \/ ConnectRejects
    \/ RetriesExhausted
    \/ RedisDown
    \/ RedisUp

SpecRedis == InitRedisModule /\ [][NextRedis]_vars

\* Two requests of one session in flight at once, over a reliable Redis.
SpecConcurrent == InitCache /\ [][HandlerNext \/ Yield]_vars

\* The plan form and its flight dialog, from the page load.
SpecDialog == EngineInit({CHOOSE p \in HandlerPlans : TRUE}) /\ [][ClientNext]_vars

\* A session that has already searched n destinations, all computed afresh:
\* the session and agent keys as n requests leave them.
PastSearches(n) == [i \in 1..n |-> [destination |-> Dest(i, {}), status |-> "good"]]

PastAgentState(n) ==
    [ lastDestination |-> Dest(1, {}),
      lastAnalysis |-> "good",
      queryCount |-> n,
      recentDestinations |-> [i \in 1..(IF n < 5 THEN n ELSE 5) |-> Dest(i, {})] ]

Histories == {4, 9, 10}

InitHistory ==
    /\ plan = CHOOSE p \in HandlerPlans : TRUE
    /\ now = 0
    /\ pc = "idle"
    /\ context = NoContext
    /\ st = InitialAnalysis
    /\ prev = <<>>
    /\ hd = Idle
    /\ response = NoResponse
    /\ redis = [available |-> TRUE, client |-> TRUE, faulty |-> FALSE, emitter |-> TRUE, init |-> "done"]
    /\ cache = [k \in CacheKeys |-> <<>>]
    /\ \E n \in Histories :
         /\ session = Stored([EmptySession EXCEPT !.recentSearches = PastSearches(n)],
                             SessionTtl)
         /\ agent = Stored(PastAgentState(n), AgentTtl)
    /\ apiKey \in BOOLEAN
    /\ served = 0
    /\ peer = NoPeer
    /\ ClientQuiet

SpecHistory == InitHistory /\ [][NextCache]_vars


----------------------------------------------------------------------------
(* Properties *)

Range(seq) == {seq[i] : i \in 1..Len(seq)}

Analysing == pc \notin {"start", "threw"}

CrossCuttingTitles == {"Long Travel Time", "Rush Hour Traffic"}

\* The status a list of risks calls for: danger for a danger risk, caution
\* for a warning, good otherwise.
ImpliedStatus(risks) ==
    IF \E r \in Range(risks) : r.type = "danger" THEN "danger"
    ELSE IF \E r \in Range(risks) : r.type = "warning" THEN "caution"
    ELSE "good"

ModeSpecificRisks(risks) == SelectSeq(risks, LAMBDA r : r.title \notin CrossCuttingTitles)

\* C1: within one invocation overallStatus only moves good -> caution ->
\* danger; no later check lowers a status an earlier check has set (both
\* revisions of generateMockAnalysis).
C1_StatusMonotone ==
    [][Analysing => Sev(st'.overallStatus) >= Sev(st.overallStatus)]_vars

\* A danger set by the closing check survived a later tight-buffer or
\* late-pickup warning.
C1_Witness ==
    /\ pc = "done"
    /\ st.overallStatus = "danger"
    /\ \E r \in Range(st.risks) : r.title \in {"Tight Airport Buffer", "Late for Pickup"}

\* C2 as stated: the final status is never more favourable than the worst
\* risk generated, cross-cutting warnings included.
C2_StatusCoversEveryRisk ==
    pc = "done" => Sev(st.overallStatus) >= Sev(ImpliedStatus(st.risks))

\* C2: overallStatus is the worst severity of the mode-specific checks
\* (closing time, flight buffer, curb-ready): danger exactly when a danger
\* risk is listed, else caution exactly when one of these checks listed a
\* warning, else good; long-travel and rush-hour warnings do not raise it.
C2_StatusFromModeChecks ==
    st.overallStatus = ImpliedStatus(ModeSpecificRisks(st.risks))

\* A finished analysis that is "good" although a warning is listed.
C2_Witness ==
    /\ pc = "done"
    /\ st.overallStatus = "good"
    /\ \E r \in Range(st.risks) : r.type = "warning"

BranchLabels == {"closing", "regular", "catching", "pickup"}

BranchMode(label) == IF label \in {"closing", "regular"} THEN "none" ELSE label

RegularTitles == {"Arriving After Closing Time", "Cutting It Close", "Good Timing"}

CatchingTitles == {"Not Enough Time at Airport", "Tight Buffer", "Plenty of Time"}

PickupTitles == {"They Might Wait for You", "You'll Be Early", "Great Timing"}

\* C3: for one request only the branch of its flightMode runs - the
\* closing-time check for a regular trip, the flight-buffer check for
\* "catching", the curb-ready check for "pickup" - and the risks of the
\* other two branches never appear.
C3_OneBranch ==
    Analysing =>
        LET ran == {BranchMode(x) : x \in Range(st.executed) \cap BranchLabels}
            titles == {r.title : r \in Range(st.risks)}
        IN  /\ ran \subseteq {plan.flightMode}
            /\ pc \in {"event", "reasoning", "done"} => ran = {plan.flightMode}
            /\ titles \cap RegularTitles # {} => plan.flightMode = "none"
            /\ titles \cap CatchingTitles # {} => plan.flightMode = "catching"
            /\ titles \cap PickupTitles # {} => plan.flightMode = "pickup"

\* A flight to catch, arriving after the hour a venue of that name would
\* close: only the flight-buffer check has run.
C3_Witness ==
    /\ pc = "done"
    /\ plan.flightMode = "catching"
    /\ minutesBeforeClose(context) < 0
    /\ \E r \in Range(st.risks) : r.title \in CatchingTitles

\* C4: every request that passes planRequestSchema gets a complete
\* result; the engine never throws.
C4_NeverThrows == pc # "threw"

\* C5 as stated: two runs on the same request give the same result in
\* every field, every context field included.
C5_SameResult ==
    (pc = "done" /\ prev # <<>>) => Result = prev[1]

\* C5: two runs on the same request give the same risks, suggestions,
\* overallStatus, statusMessage, reasoning and context, except for
\* context.currentTime, which is the clock reading of each run.
C5_SameResultButClock ==
    (pc = "done" /\ prev # <<>>) =>
        [Result EXCEPT !.context.currentTime = 0]
          = [prev[1] EXCEPT !.context.currentTime = 0]

\* A second run of the same request has finished at a later clock reading.
C5_Witness ==
    /\ pc = "done"
    /\ prev # <<>>
    /\ context.currentTime # prev[1].context.currentTime
    /\ Len(st.risks) >= 2

MockResult == MakeResult(hd.context[1], Analysis(generateMockAnalysis(plan, hd.context[1])))

\* C6: when callTinyFish throws, the handler answers 200 with the mock
\* analysis of the request, and that result is cached and recorded in the
\* session and agent state as any result is.
C6_FallbackToMock ==
    hd.tinyFishThrew =>
        /\ hd.result = <<MockResult>>
        /\ "generateMockAnalysis" \in hd.calls
        /\ hd.pc = "responded" => response = Respond(200, <<MockResult>>)
        /\ "cache" \in hd.wrote =>
             cache[buildCacheKey(plan)]
               = <<[value |-> MockResult, expiresAt |-> now + CacheTtl]>>
        /\ "session" \in hd.wrote =>
             /\ session # <<>>
             /\ session[1].expiresAt = now + SessionTtl
             /\ session[1].value.recentSearches[1] = SearchEntry(plan, MockResult)
        /\ "agent" \in hd.wrote =>
             /\ agent # <<>>
             /\ agent[1].expiresAt = now + AgentTtl
             /\ agent[1].value.lastAnalysis = MockResult.overallStatus
             /\ agent[1].value.lastDestination = plan.dest

\* The agent failed, the answer went out and all three keys were written.
C6_Witness ==
    /\ hd.tinyFishThrew
    /\ hd.pc = "responded"
    /\ hd.wrote = {"cache", "session", "agent"}

\* C7: with Redis unconfigured or unreachable every schema-valid request
\* is still answered with a freshly computed result.
C7_AnswersWithoutRedis ==
    (hd.pc = "responded" /\ response.code # 400 /\ ~RedisUsable /\ hd.wrote = {}) =>
        /\ response.code = 200
        /\ ~hd.hit
        /\ response.body = hd.result

\* C8: a computed result is stored under the key of its plan parameters
\* for 600 seconds; a request is answered from the cache, with no
\* analysis run, exactly while the key's entry has not expired, and
\* otherwise it is computed and stored again.
C8_CacheFor600s ==
    LET e == cache[buildCacheKey(plan)]
    IN  /\ (hd.pc \notin {"idle", "cacheGet"} /\ hd.hit) =>
              /\ e # <<>>
              /\ hd.pc # "responded" => now < e[1].expiresAt
              /\ hd.result = <<e[1].value>>
              /\ hd.calls = {}
              /\ hd.pc = "responded" => response = Respond(200, <<e[1].value>>)
        /\ (hd.pc \in {"agentGet", "tinyfish", "cacheSet"}) =>
              (e = <<>> \/ now >= e[1].expiresAt)
        /\ (hd.pc \in {"sessionGet", "sessionSet", "agentSet"} /\ ~hd.hit) =>
              e = <<[value |-> hd.result[1], expiresAt |-> now + CacheTtl]>>
        /\ (hd.pc = "responded" /\ response.code = 200 /\ ~hd.hit) =>
              e = <<[value |-> response.body[1],
                     expiresAt |-> response.body[1].context.currentTime + CacheTtl]>>

\* A request answered from an entry computed at an earlier clock reading.
C8_Witness ==
    /\ hd.pc = "responded"
    /\ hd.hit
    /\ response.code = 200
    /\ response.body[1].context.currentTime < now

CoordsAbsent == plan.currentCoords = NoCoords \/ plan.destinationCoords = NoCoords

\* C9 as stated: without both map pins distanceKm lies in [5, 33.5].
C9_FallbackUpTo33 ==
    (Analysing /\ CoordsAbsent) =>
        (2 * context.distanceKm >= 10 /\ 2 * context.distanceKm <= 67)

\* C9: without both map pins distanceKm is a whole number of kilometres
\* in [5, 34]; it depends on the lengths of destinationName,
\* currentLocation and destinationPincode only.
C9_FallbackUpTo34 ==
    (Analysing /\ CoordsAbsent) =>
        /\ context.distanceKm >= 5
        /\ context.distanceKm <= 34
        /\ context.distanceKm
             = Round(10 + 3 * ((plan.dest.len + plan.locLen + plan.pinLen) % 20), 2)

\* The seed 19: 5 + 19 * 1.5 = 33.5, rounded to 34.
C9_Witness ==
    /\ Analysing
    /\ CoordsAbsent
    /\ context.distanceKm = 34

\* C10: context.distanceMiles is distanceKm * 0.621371 rounded to one
\* decimal: it is a whole number of tenths within 0.05 mile of the product.
C10_MilesFromKm ==
    Analysing =>
        Abs((context.distanceMiles - 6 * context.distanceKm) * 100000
              - context.distanceKm * 21371) <= 50000

\* A road distance from two map pins whose miles round up.
C10_Witness ==
    /\ Analysing
    /\ ~CoordsAbsent
    /\ context.distanceKm > 34
    /\ context.distanceMiles > distanceMilesTruncated(context.distanceKm)


\* The severity of the check that writes a status message.
DangerMessages ==
    { "You'll arrive after the venue closes. Consider going earlier or another day.",
      "Cutting it too close - only N min before your flight.",
      "You may miss your flight! You won't have enough time for check-in and security." }

CautionMessages ==
    { "Tight timing - you'll arrive close to closing time. Consider adjusting.",
      "Tight - N min buffer at the airport. Consider leaving earlier.",
      "Tight timing for your flight - consider leaving earlier.",
      "You may arrive after your passenger is ready. Leave a bit earlier.",
      "You might arrive after your passenger is ready - they may have to wait." }

MessageStatus(msg) ==
    IF msg \in DangerMessages THEN "danger"
    ELSE IF msg \in CautionMessages THEN "caution"
    ELSE "good"

\* C11: in both revisions the returned statusMessage was never written by
\* a check of lower severity than the returned overallStatus.
C11_MessageMatchesStatus ==
    pc = "done" => Sev(MessageStatus(st.statusMessage)) >= Sev(st.overallStatus)

ClosingSuggestionTitles == {"Leave Earlier", "Consider Leaving Sooner"}

\* C12: for a catching or pickup request the context holds venueHours
\* "Airport - 24/7" and venueClosingTime "N/A", the closing-time check does
\* not run, and no closing-time risk or suggestion is listed.
C12_NoClosingForFlights ==
    (Analysing /\ plan.flightMode \in {"catching", "pickup"}) =>
        /\ context.venueHours.text = "Airport - 24/7"
        /\ context.venueClosingTime = NotApplicable
        /\ "closing" \notin Range(st.executed)
        /\ {r.title : r \in Range(st.risks)} \cap RegularTitles = {}
        /\ {g.title : g \in Range(st.suggestions)} \cap ClosingSuggestionTitles = {}


ClosingRisks == SelectSeq(st.risks, LAMBDA r : r.title \in RegularTitles)

ClosingSuggestions == SelectSeq(st.suggestions, LAMBDA g : g.title \in ClosingSuggestionTitles)

\* Closing hour times 60 minus the arrival's minutes since midnight.
MinutesToClose == venueCloseHour(plan.dest) * 60 - (context.estimatedArrivalTime % 1440)

AfterClosingCheck == pc \in {"longTravel", "rushHour", "mode", "event", "reasoning", "done"}

\* C13: a regular trip gets exactly one closing-time risk: below 0
\* minutes before closing status danger, a danger risk and a timing
\* suggestion naming |minutesBeforeClose| + 30; from 0 to 59 status
\* caution, a warning risk and a timing suggestion; from 60 on an info
\* risk, no suggestion and status good.
C13_ClosingThresholds ==
    (plan.flightMode = "none" /\ AfterClosingCheck) =>
        /\ Len(ClosingRisks) = 1
        /\ MinutesToClose < 0 =>
             /\ st.overallStatus = "danger"
             /\ ClosingRisks[1].type = "danger"
             /\ ClosingSuggestions
                  = <<Entry("timing", "Leave Earlier", <<Num(Abs(MinutesToClose) + 30)>>)>>
        /\ (MinutesToClose >= 0 /\ MinutesToClose < 60) =>
             /\ st.overallStatus = "caution"
             /\ ClosingRisks[1].type = "warning"
             /\ Len(ClosingSuggestions) = 1
             /\ ClosingSuggestions[1].type = "timing"
        /\ MinutesToClose >= 60 =>
             /\ st.overallStatus = "good"
             /\ ClosingRisks[1].type = "info"
             /\ ClosingSuggestions = <<>>

\* An arrival exactly at the closing hour: caution.
C13_Witness ==
    /\ pc = "done"
    /\ plan.flightMode = "none"
    /\ MinutesToClose = 0
    /\ st.overallStatus = "caution"


AfterModeBranch == pc \in {"event", "reasoning", "done"}

CatchingRisks == SelectSeq(st.risks, LAMBDA r : r.title \in CatchingTitles)

\* Flight departure on departureDate minus the arrival at the airport.
BufferMinutes ==
    plan.flightDepartureTime.h * 60 + plan.flightDepartureTime.m
      - context.estimatedArrivalTime

LastSuggestion(k) == st.suggestions[Len(st.suggestions) - k]

\* C14: catching a flight whose departure time is given: a buffer below
\* 60 minutes gives status danger and one danger risk, 60 to 119 status
\* caution and one warning risk, 120 and more one info risk and status
\* good; the "Before You Leave" check-in tip is appended in each case.
C14_BufferThresholds ==
    (/\ plan.flightMode = "catching"
     /\ ~DateTimeOf(plan, plan.flightDepartureTime).nan
     /\ AfterModeBranch) =>
        /\ Len(CatchingRisks) = 1
        /\ CatchingRisks[1].type =
             IF BufferMinutes < 60 THEN "danger"
             ELSE IF BufferMinutes < 120 THEN "warning" ELSE "info"
        /\ st.overallStatus =
             IF BufferMinutes < 60 THEN "danger"
             ELSE IF BufferMinutes < 120 THEN "caution" ELSE "good"
        /\ LastSuggestion(0) = Entry("tip", "Before You Leave", <<>>)

\* A buffer of exactly 60 minutes: caution.
C14_Witness ==
    /\ pc = "done"
    /\ plan.flightMode = "catching"
    /\ ~DateTimeOf(plan, plan.flightDepartureTime).nan
    /\ BufferMinutes = 60
    /\ st.overallStatus = "caution"

PickupRisks == SelectSeq(st.risks, LAMBDA r : r.title \in PickupTitles)

\* Landing time plus 30 minutes, minus the arrival at the airport.
WaitMinutes ==
    plan.pickupArrivalTime.h * 60 + plan.pickupArrivalTime.m + 30
      - context.estimatedArrivalTime

\* C15: an airport pickup whose landing time is given: arriving after
\* landing + 30 minutes gives status caution and one warning risk;
\* otherwise status good and one info risk, "You'll Be Early" when more
\* than 45 minutes early and "Great Timing" when at most 45; the tip
\* "Pickup Tip" and then the timing "After Landing" are appended always.
C15_CurbReadyThresholds ==
    (/\ plan.flightMode = "pickup"
     /\ ~DateTimeOf(plan, plan.pickupArrivalTime).nan
     /\ AfterModeBranch) =>
        /\ Len(PickupRisks) = 1
        /\ WaitMinutes < 0 =>
             /\ st.overallStatus = "caution"
             /\ PickupRisks[1].type = "warning"
        /\ WaitMinutes >= 0 =>
             /\ st.overallStatus = "good"
             /\ PickupRisks[1].type = "info"
             /\ PickupRisks[1].title =
                  IF WaitMinutes > 45 THEN "You'll Be Early" ELSE "Great Timing"
        /\ LastSuggestion(1) = Entry("tip", "Pickup Tip", <<>>)
        /\ LastSuggestion(0) = Entry("timing", "After Landing", <<>>)

\* Arriving exactly when the passenger is at the curb: good timing.
C15_Witness ==
    /\ pc = "done"
    /\ plan.flightMode = "pickup"
    /\ ~DateTimeOf(plan, plan.pickupArrivalTime).nan
    /\ WaitMinutes = 0
    /\ st.overallStatus = "good"


LongTravelRisks == SelectSeq(st.risks, LAMBDA r : r.title = "Long Travel Time")

RushHourRisks == SelectSeq(st.risks, LAMBDA r : r.title = "Rush Hour Traffic")

SubFieldMissing ==
    \/ plan.flightMode = "catching" /\ plan.flightDepartureTime = Absent
    \/ plan.flightMode = "pickup" /\ plan.pickupArrivalTime = Absent

\* C16: a catching trip without flightDepartureTime, or a pickup without
\* pickupArrivalTime, gets no buffer or curb-ready risk and keeps the
\* default overallStatus and statusMessage, while the branch's general
\* suggestions and the long-travel and rush-hour checks are still produced.
C16_MissingSubField ==
    (SubFieldMissing /\ AfterModeBranch) =>
        /\ CatchingRisks = <<>>
        /\ PickupRisks = <<>>
        /\ st.overallStatus = "good"
        /\ st.statusMessage = "Your plan looks solid! You should arrive with plenty of time."
        /\ plan.flightMode = "catching" =>
             LastSuggestion(0) = Entry("tip", "Before You Leave", <<>>)
        /\ plan.flightMode = "pickup" =>
             /\ LastSuggestion(1) = Entry("tip", "Pickup Tip", <<>>)
             /\ LastSuggestion(0) = Entry("timing", "After Landing", <<>>)
        /\ Len(LongTravelRisks) = IF context.estimatedTravelMinutes > 45 THEN 1 ELSE 0
        /\ Len(RushHourRisks) =
             IF /\ (context.estimatedArrivalTime % 1440) \div 60 \in 17..19
                /\ plan.transportMode = "driving"
             THEN 1 ELSE 0

\* A flight to catch with no departure time given, a long drive arriving
\* in the rush hour: both cross-cutting warnings and the tip, status good.
C16_Witness ==
    /\ pc = "done"
    /\ plan.flightMode = "catching"
    /\ plan.flightDepartureTime = Absent
    /\ Len(LongTravelRisks) = 1
    /\ Len(RushHourRisks) = 1
    /\ st.overallStatus = "good"

AfterLongTravelCheck == pc \in {"rushHour", "mode", "event", "reasoning", "done"}

AlternativeSuggestions == SelectSeq(st.suggestions, LAMBDA g : g.type = "alternative")

\* C17: in every mode the warning "Long Travel Time" is listed exactly
\* when estimatedTravelMinutes > 45, and an "alternative" suggestion
\* exactly when in addition transportMode is driving: rideshare for a
\* catching or pickup trip, public transit otherwise.
C17_LongTravel ==
    AfterLongTravelCheck =>
        /\ LongTravelRisks =
             IF context.estimatedTravelMinutes > 45
             THEN <<Entry("warning", "Long Travel Time",
                          <<Num(context.distanceKm), Num(context.estimatedTravelMinutes)>>)>>
             ELSE <<>>
        /\ AlternativeSuggestions =
             IF context.estimatedTravelMinutes > 45 /\ plan.transportMode = "driving"
             THEN <<Entry("alternative",
                          IF plan.flightMode \in {"catching", "pickup"}
                          THEN "Consider Rideshare" ELSE "Consider Public Transit", <<>>)>>
             ELSE <<>>

\* A long drive to the airport: the warning and the rideshare suggestion.
C17_Witness ==
    /\ pc = "done"
    /\ plan.flightMode = "pickup"
    /\ plan.transportMode = "driving"
    /\ context.estimatedTravelMinutes > 45
    /\ Len(LongTravelRisks) = 1
    /\ \E g \in Range(st.suggestions) : g.title = "Consider Rideshare"


OpensAt == 9 * 60

\* C18: a regular trip to a "bar" / "club" venue (closing 02:00 the next
\* day) that arrives during opening hours at least 60 minutes before that
\* instant - in the evening or shortly after midnight - gets the info risk
\* "Good Timing" and status good from the closing-time check.
C18_BarClosesNextDay ==
    LET arrival == context.estimatedArrivalTime % 1440
    IN  (/\ plan.flightMode = "none"
         /\ AfterClosingCheck
         /\ venueCloseHour(plan.dest) = 2
         /\ (arrival >= OpensAt \/ arrival <= 60)) =>
            /\ Len(ClosingRisks) = 1
            /\ ClosingRisks[1].title = "Good Timing"
            /\ st.overallStatus = "good"

\* The hour of the lookup table for the request's destination name.
TableClosingHour ==
    IF "restaurant" \in plan.dest.kw THEN 22
    ELSE IF plan.dest.kw \cap {"bar", "club"} # {} THEN 2
    ELSE IF plan.dest.kw \cap {"gym", "fitness"} # {} THEN 21
    ELSE IF "park" \in plan.dest.kw THEN 20
    ELSE 18

\* C19: for a regular trip the closing hour follows the priority
\* restaurant 22 > bar or club 2 > gym or fitness 21 > park 20 > default
\* 18, and the hour generateMockAnalysis parses back from the formatted
\* venueClosingTime is that hour.
C19_VenueHoursRoundTrip ==
    (plan.flightMode = "none" /\ Analysing) =>
        /\ context.venueClosingTime = FormatClosing(TableClosingHour)
        /\ context.venueHours.close = context.venueClosingTime
        /\ closingHour24(context.venueClosingTime) = TableClosingHour

\* "Joe's Restaurant & Bar": the restaurant hour wins, "10:00 PM" reads
\* back as 22.
C19_Witness ==
    /\ pc = "done"
    /\ plan.flightMode = "none"
    /\ {"restaurant", "bar"} \subseteq plan.dest.kw
    /\ context.venueClosingTime = [hour |-> 10, ampm |-> "PM"]
    /\ closingHour24(context.venueClosingTime) = 22

BothCoords == plan.currentCoords # NoCoords /\ plan.destinationCoords # NoCoords

TableSpeed ==
    CASE plan.transportMode = "driving" -> 45
      [] plan.transportMode = "transit" -> 30
      [] plan.transportMode = "walking" -> 5
      [] plan.transportMode = "cycling" -> 15

\* C20: estimatedTravelMinutes = round(distanceKm / speed * 60) with
\* speed 45, 30, 5, 15 km/h for driving, transit, walking, cycling; the
\* distance is round(haversine * 1.3) exactly when both map pins are given
\* and the name-length fallback otherwise.
C20_TravelMinutes ==
    Analysing =>
        /\ context.estimatedTravelMinutes = Round(context.distanceKm * 60, TableSpeed)
        /\ context.distanceKm =
             IF BothCoords
             THEN Round(haversineDistance(plan.currentCoords, plan.destinationCoords) * 13, 10000)
             ELSE Round(10 + 3 * ((plan.dest.len + plan.locLen + plan.pinLen) % 20), 2)

\* A walk between two map pins, and not to the spot one stands on.
C20_Witness ==
    /\ Analysing
    /\ BothCoords
    /\ plan.transportMode = "walking"
    /\ context.distanceKm = 27
    /\ context.estimatedTravelMinutes = 324


DelaySamples == {0, 1, 59, 60, 1439, 1440, 2881}

WallClock(minutes) == At((minutes % 1440) \div 60, minutes % 60)

\* C21: addMinutesToHHMM adds minutes to an "HH:MM" (HH up to 23) modulo
\* 24 hours, so userArrivalTime shows the hour and minute of the arrival
\* instant; a string without a colon is returned unchanged.
C21_WallClockAddition ==
    (Analysing /\ plan.variant = "part_007") =>
        /\ plan.depH <= 23 =>
             \A d \in DelaySamples :
                addMinutesToHHMM(At(plan.depH, plan.depM), d)
                  = WallClock(plan.depH * 60 + plan.depM + d)
        /\ context.userArrivalTime = WallClock(context.estimatedArrivalTime)
        /\ \A d \in DelaySamples :
             /\ addMinutesToHHMM(Invalid, d) = Invalid
             /\ addMinutesToHHMM(Absent, d) = Absent

\* A departure at 23:30 whose arrival falls after midnight.
C21_Witness ==
    /\ pc = "done"
    /\ plan.depH = 23
    /\ context.estimatedArrivalTime >= 1440
    /\ context.userArrivalTime.h = 0

RushHourExpected ==
    /\ (context.estimatedArrivalTime % 1440) \div 60 \in 17..19
    /\ plan.transportMode = "driving"

Position(title) == CHOOSE i \in 1..Len(st.risks) : st.risks[i].title = title

\* C22 as stated: in every mode the long-travel and rush-hour entries come
\* after the mode-specific risk entry, the rush-hour entry after the
\* long-travel entry and present exactly for a driving arrival in 17..19.
C22_CrossCuttingLast ==
    pc = "done" =>
        /\ \A i, j \in 1..Len(st.risks) :
             (st.risks[i].title \in CrossCuttingTitles
                /\ st.risks[j].title \notin CrossCuttingTitles) => j < i
        /\ Len(RushHourRisks) = IF RushHourExpected THEN 1 ELSE 0
        /\ (Len(RushHourRisks) = 1 /\ Len(LongTravelRisks) = 1) =>
             Position("Long Travel Time") < Position("Rush Hour Traffic")

\* C22: the risks are listed in the order closing-time risk (regular
\* trips only), long-travel, rush-hour, then the flight-buffer or
\* curb-ready risk (catching and pickup trips): the cross-cutting entries
\* follow the closing-time risk but precede the flight risk; the rush-hour
\* entry is present exactly for a driving arrival in 17..19.
C22_RiskOrder ==
    pc = "done" =>
        /\ st.risks = ClosingRisks \o LongTravelRisks \o RushHourRisks
                        \o CatchingRisks \o PickupRisks
        /\ Len(RushHourRisks) = IF RushHourExpected THEN 1 ELSE 0
        /\ Len(ClosingRisks) = IF plan.flightMode = "none" THEN 1 ELSE 0

\* A long rush-hour drive to a flight: both warnings precede the buffer risk.
C22_Witness ==
    /\ pc = "done"
    /\ plan.flightMode = "catching"
    /\ Len(st.risks) = 3
    /\ st.risks[1].title = "Long Travel Time"
    /\ st.risks[2].title = "Rush Hour Traffic"
    /\ st.risks[3].title \in CatchingTitles

\* What the heuristic engine computes for the request now being served.
FreshAnalysis == Analysis(generateMockAnalysis(plan, generateContext(plan, now)))

\* C24: a request answered from the cache receives the analysis the
\* heuristic engine computes for it: requests that share a cache key have
\* equal results.
C24_SameKeySameAnalysis ==
    (hd.pc = "responded" /\ response.code = 200 /\ hd.hit /\ ~apiKey) =>
        Analysis(response.body[1]) = FreshAnalysis

\* The first n entries of a list, or all of a shorter one.
Prefix(seq, n) == [i \in 1..(IF Len(seq) < n THEN Len(seq) ELSE n) |-> seq[i]]

SessionSearches(e) == IF Live(e) THEN e[1].value.recentSearches ELSE <<>>

AgentDestinations(e) == IF Live(e) THEN e[1].value.recentDestinations ELSE <<>>

\* C25: recentSearches never holds more than 10 entries and
\* recentDestinations never more than 5; a request that writes a list puts
\* its destination first and keeps the earlier entries behind it in their
\* order, most recent first.
C25_BoundedHistories ==
    /\ [](Len(SessionSearches(session)) <= 10 /\ Len(AgentDestinations(agent)) <= 5)
    /\ [][ /\ session' # session =>
                /\ SessionSearches(session')[1].destination = plan.dest
                /\ Tail(SessionSearches(session'))
                     = Prefix(SessionSearches(session), 9)
           /\ agent' # agent =>
                /\ AgentDestinations(agent')[1] = plan.dest
                /\ Tail(AgentDestinations(agent'))
                     = Prefix(AgentDestinations(agent), 4) ]_vars

\* A request of a session with ten searches and five destinations behind
\* it: both lists are full and the oldest entry has been dropped.
C25_Witness ==
    /\ hd.pc = "responded"
    /\ "agent" \in hd.wrote
    /\ Len(SessionSearches(session)) = 10
    /\ Len(AgentDestinations(agent)) = 5
    /\ SessionSearches(session)[1].destination = plan.dest
    /\ SessionSearches(session)[10].destination = Dest(8, {})
    /\ AgentDestinations(agent)[5] = Dest(3, {})

QueryCount(e) == IF Live(e) THEN e[1].value.queryCount ELSE 0

\* C26: between requests queryCount is the number of requests answered with
\* a result, from the cache or computed afresh: one per entry of
\* recentSearches, and recentDestinations lists the same destinations.
C26_CountsEveryRequest ==
    hd.pc \in {"idle", "responded"} =>
        /\ QueryCount(agent) = Len(SessionSearches(session))
        /\ AgentDestinations(agent)
             = [i \in 1..Len(SessionSearches(session)) |->
                  SessionSearches(session)[i].destination]

\* C29 as stated: some driving trip without map coordinates has
\* estimatedTravelMinutes > 45, the "Long Travel Time" warning and an
\* "alternative" suggestion.
C29_FallbackLongDrive ==
    \E p \in CtxPlans :
        LET ctx == generateContext(p, now)
            a == generateMockAnalysis(p, ctx)
        IN  /\ p.currentCoords = NoCoords \/ p.destinationCoords = NoCoords
            /\ p.transportMode = "driving"
            /\ ctx.estimatedTravelMinutes > 45
            /\ \E r \in Range(a.risks) : r.title = "Long Travel Time"
            /\ \E g \in Range(a.suggestions) : g.type = "alternative"

\* C29: a driving trip without both map coordinates is at most 34 km and 45
\* minutes long, so it gets neither the "Long Travel Time" warning nor an
\* "alternative" suggestion; with both coordinates a driving trip of more
\* than 45 minutes gets both.
C29_FallbackDriveWithin45 ==
    (pc = "done" /\ plan.transportMode = "driving") =>
        /\ CoordsAbsent =>
             /\ context.distanceKm <= 34
             /\ context.estimatedTravelMinutes <= 45
             /\ LongTravelRisks = <<>>
             /\ AlternativeSuggestions = <<>>
        /\ (BothCoords /\ context.estimatedTravelMinutes > 45) =>
             /\ Len(LongTravelRisks) = 1
             /\ Len(AlternativeSuggestions) = 1

\* The longest fallback drive: seed 19, 34 km, 45 minutes, no warning.
C29_Witness ==
    /\ pc = "done"
    /\ plan.transportMode = "driving"
    /\ CoordsAbsent
    /\ locationSeed(plan) = 19
    /\ context.distanceKm = 34
    /\ context.estimatedTravelMinutes = 45
    /\ LongTravelRisks = <<>>

\* C30: every response with status 200, whether it comes from TinyFish, from
\* the heuristic engine or from the cache, holds risks, suggestions and
\* reasoning together with an overallStatus of good, caution or danger and
\* a statusMessage.
C30_CompleteAnalysis ==
    (hd.pc = "responded" /\ response.code = 200) =>
        /\ response.body[1].overallStatus \in {"good", "caution", "danger"}
        /\ response.body[1].statusMessage # Undefined

\* C28: in every reachable state of the Redis module, whatever the order of
\* initRedis finishing or failing and of the connect, error and close
\* events, redisAvailable implies that redisClient is not null.
C28_AvailableImpliesClient == redis.available => redis.client

\* The values the dialog last handed to onConfirm.
Confirmed == dialog.confirmed[1]

FormHoldsConfirmed ==
    /\ form.flightMode = Confirmed.flightMode
    /\ Confirmed.flightMode = "catching" =>
         /\ form.flightAirline = OrEmpty(Confirmed.flightAirline)
         /\ form.flightNumber = OrEmpty(Confirmed.flightNumber)
         /\ form.flightDestinationCity = OrEmpty(Confirmed.flightDestinationCity)
         /\ form.flightDepartureTime = OrEmpty(Confirmed.flightDepartureTime)
    /\ Confirmed.flightMode = "pickup" =>
         /\ form.flightAirline = OrEmpty(Confirmed.flightAirline)
         /\ form.pickupFlightNumber = OrEmpty(Confirmed.pickupFlightNumber)
         /\ form.pickupArrivalTime = OrEmpty(Confirmed.pickupArrivalTime)

PrefilledWithConfirmed ==
    /\ Confirmed.flightMode = "catching" =>
         /\ dialog'.step = "catching_details"
         /\ dialog'.airline = OrEmpty(Confirmed.flightAirline)
         /\ dialog'.flightNumber = OrEmpty(Confirmed.flightNumber)
         /\ dialog'.destinationCity = OrEmpty(Confirmed.flightDestinationCity)
         /\ dialog'.flightTime = OrEmpty(Confirmed.flightDepartureTime)
    /\ Confirmed.flightMode = "pickup" =>
         /\ dialog'.step = "pickup_details"
         /\ dialog'.pickupAirline = OrEmpty(Confirmed.flightAirline)
         /\ dialog'.pickupFlight = OrEmpty(Confirmed.pickupFlightNumber)
         /\ dialog'.pickupTime = OrEmpty(Confirmed.pickupArrivalTime)

\* C23: once catching details (airline, flight number, destination city,
\* departure time) or pickup details (airline, flight number, landing time)
\* are confirmed, the form holds exactly those values with the confirmed
\* flightMode; and the pencil button re-opens the dialog at the matching
\* details step, pre-filled with the values last confirmed, also after a
\* switch from one mode to the other.
C23_FlightRoundTrip ==
    /\ [](dialog.confirmed # <<>> => FormHoldsConfirmed)
    /\ [][(~dialog.open /\ dialog'.open /\ dialog'.initialData # <<>>)
            => PrefilledWithConfirmed]_vars

\* Both requests of the session have been answered with a result.
BothAnswered ==
    /\ served = 2
    /\ hd.pc = "responded" /\ response.code = 200
    /\ peer.hd.pc = "responded" /\ peer.response.code = 200

\* C27: when two requests of one session run at once, however their awaits
\* interleave, after both are answered recentSearches holds an entry for
\* each of them, and queryCount has grown by 2 if both were cache misses.
C27_NoLostUpdates ==
    BothAnswered =>
        /\ Len(SessionSearches(session)) = 2
        /\ (~hd.hit /\ ~peer.hd.hit) => QueryCount(agent) = 2

============================================================================
